---- MODULE Spec2Model ----
(***************************************************************************)
(* A model of the ancryptor text codec (encode / decode over the base64   *)
(* STANDARD engine), of concurrent callers of the codec, and of the       *)
(* publish binary that copies the JNI library into the android project.   *)
(*                                                                         *)
(* Text is a sequence of Unicode scalar values; a Rust String holds it as *)
(* its UTF-8 bytes, so every conversion between the two is computed.      *)
(***************************************************************************)
EXTENDS Integers, Sequences, FiniteSets, TLC

VARIABLES input, cur, calls,
          cpc, cfn, carg, cbuf, cret,
          ppc, order, idx, libExists, cwd, copied, attempts, failedAt, printed

codecVars == <<input, cur, calls>>
callVars == <<cpc, cfn, carg, cbuf, cret>>
pubVars == <<ppc, order, idx, libExists, cwd, copied, attempts, failedAt, printed>>
vars == <<input, cur, calls, cpc, cfn, carg, cbuf, cret,
          ppc, order, idx, libExists, cwd, copied, attempts, failedAt, printed>>

----------------------------------------------------------------------------
(* Bounds of the model. *)

MaxTextLen == 3
MaxB64Len == 4

----------------------------------------------------------------------------
(* Rust strings: a String is the UTF-8 encoding of its chars. *)

Utf8Char(cp) ==
    IF cp < 128 THEN <<cp>>
    ELSE IF cp < 2048 THEN <<192 + (cp \div 64), 128 + (cp % 64)>>
    ELSE IF cp < 65536
         THEN <<224 + (cp \div 4096), 128 + ((cp \div 64) % 64), 128 + (cp % 64)>>
    ELSE <<240 + (cp \div 262144), 128 + ((cp \div 4096) % 64),
           128 + ((cp \div 64) % 64), 128 + (cp % 64)>>

RECURSIVE StrBytes(_)
StrBytes(s) ==
    IF s = <<>> THEN <<>> ELSE Utf8Char(Head(s)) \o StrBytes(Tail(s))

(* core::str::from_utf8: the width of a sequence from its first byte, and  *)
(* the range the second byte must lie in (overlong forms, surrogates and   *)
(* values above U+10FFFF are rejected there).                               *)
Utf8Width(b) ==
    IF b < 128 THEN 1
    ELSE IF b >= 194 /\ b <= 223 THEN 2
    ELSE IF b >= 224 /\ b <= 239 THEN 3
    ELSE IF b >= 240 /\ b <= 244 THEN 4
    ELSE 0

SecondByteOk(first, b) ==
    IF first = 224 THEN b >= 160 /\ b <= 191
    ELSE IF first = 237 THEN b >= 128 /\ b <= 159
    ELSE IF first = 240 THEN b >= 144 /\ b <= 191
    ELSE IF first = 244 THEN b >= 128 /\ b <= 143
    ELSE b >= 128 /\ b <= 191

IsCont(b) == b >= 128 /\ b <= 191

(* String::from_utf8(bytes): Ok(text) or Err; on Err `text` holds the      *)
(* chars of the longest valid prefix (what a lossy conversion would keep). *)
RECURSIVE FromUtf8(_, _)
FromUtf8(bytes, acc) ==
    IF bytes = <<>> THEN [ok |-> TRUE, text |-> acc]
    ELSE LET first == bytes[1]
             w == Utf8Width(first)
         IN  IF w = 0 \/ Len(bytes) < w THEN [ok |-> FALSE, text |-> acc]
             ELSE IF w = 1 THEN FromUtf8(Tail(bytes), Append(acc, first))
             ELSE IF ~SecondByteOk(first, bytes[2])
                     \/ \E k \in 3..w : ~IsCont(bytes[k])
                  THEN [ok |-> FALSE, text |-> acc]
             ELSE LET lead == IF w = 2 THEN first - 192
                              ELSE IF w = 3 THEN first - 224 ELSE first - 240
                      cp == IF w = 2 THEN lead * 64 + (bytes[2] - 128)
                            ELSE IF w = 3
                                 THEN lead * 4096 + (bytes[2] - 128) * 64 + (bytes[3] - 128)
                            ELSE lead * 262144 + (bytes[2] - 128) * 4096
                                 + (bytes[3] - 128) * 64 + (bytes[4] - 128)
                  IN  FromUtf8(SubSeq(bytes, w + 1, Len(bytes)), Append(acc, cp))

----------------------------------------------------------------------------
(* base64::engine::general_purpose::STANDARD *)

PAD == 61

INVALID_VALUE == 255

(* Mutant: the alphabet with the lower case letters first. *)
SymLowerFirst(v) ==
    IF v < 26 THEN 97 + v
    ELSE IF v < 52 THEN 65 + (v - 26)
    ELSE IF v < 62 THEN 48 + (v - 52)
    ELSE IF v = 62 THEN 43
    ELSE 47

(* Mutant: the URL-safe alphabet ('-' and '_' for '+' and '/'). *)
SymUrlSafe(v) ==
    IF v < 26 THEN 65 + v
    ELSE IF v < 52 THEN 97 + (v - 26)
    ELSE IF v < 62 THEN 48 + (v - 52)
    ELSE IF v = 62 THEN 45
    ELSE 95

(* The STANDARD alphabet: symbol of a 6-bit value, as its ASCII code. *)
Sym(v) ==
    IF v < 26 THEN 65 + v
    ELSE IF v < 52 THEN 97 + (v - 26)
    ELSE IF v < 62 THEN 48 + (v - 52)
    ELSE IF v = 62 THEN 43
    ELSE 47

(* Mutant: the decode table of the URL-safe alphabet. *)
DecodeSymUrlSafe(b) ==
    IF b >= 65 /\ b <= 90 THEN b - 65
    ELSE IF b >= 97 /\ b <= 122 THEN b - 97 + 26
    ELSE IF b >= 48 /\ b <= 57 THEN b - 48 + 52
    ELSE IF b = 45 THEN 62
    ELSE IF b = 95 THEN 63
    ELSE INVALID_VALUE

(* The decode table: 6-bit value of a byte, INVALID_VALUE outside the alphabet. *)
DecodeSym(b) ==
    IF b >= 65 /\ b <= 90 THEN b - 65
    ELSE IF b >= 97 /\ b <= 122 THEN b - 97 + 26
    ELSE IF b >= 48 /\ b <= 57 THEN b - 48 + 52
    ELSE IF b = 43 THEN 62
    ELSE IF b = 47 THEN 63
    ELSE INVALID_VALUE

(* Mutant: the NO_PAD engine, which leaves the padding out. *)
RECURSIVE EncodeBytesNoPad(_)
EncodeBytesNoPad(b) ==
    IF b = <<>> THEN <<>>
    ELSE IF Len(b) >= 3
         THEN <<Sym(b[1] \div 4),
                Sym((b[1] % 4) * 16 + (b[2] \div 16)),
                Sym((b[2] % 16) * 4 + (b[3] \div 64)),
                Sym(b[3] % 64)>> \o EncodeBytesNoPad(SubSeq(b, 4, Len(b)))
    ELSE IF Len(b) = 2
         THEN <<Sym(b[1] \div 4),
                Sym((b[1] % 4) * 16 + (b[2] \div 16)),
                Sym((b[2] % 16) * 4)>>
    ELSE <<Sym(b[1] \div 4), Sym((b[1] % 4) * 16)>>

(* Engine::encode: complete 3-byte chunks, then the 1 or 2 byte remainder  *)
(* zero-filled and padded (the STANDARD config pads).                       *)
RECURSIVE EncodeBytes(_)
EncodeBytes(b) ==
    IF b = <<>> THEN <<>>
    ELSE IF Len(b) >= 3
         THEN <<Sym(b[1] \div 4),
                Sym((b[1] % 4) * 16 + (b[2] \div 16)),
                Sym((b[2] % 16) * 4 + (b[3] \div 64)),
                Sym(b[3] % 64)>> \o EncodeBytes(SubSeq(b, 4, Len(b)))
    ELSE IF Len(b) = 2
         THEN <<Sym(b[1] \div 4),
                Sym((b[1] % 4) * 16 + (b[2] \div 16)),
                Sym((b[2] % 16) * 4),
                PAD>>
    ELSE <<Sym(b[1] \div 4), Sym((b[1] % 4) * 16), PAD, PAD>>

(* The last (at most 4) bytes of the input: padding may appear only in the *)
(* third and fourth place, nothing may follow it, symbols plus padding     *)
(* must fill the quad (canonical padding), and the bits of the last symbol *)
(* that belong to no byte must be zero.  st = [pad, morsels, bits, err].   *)
RECURSIVE ScanSuffix(_, _, _)
ScanSuffix(inp, i, st) ==
    IF st.err \/ i > Len(inp) THEN st
    ELSE LET b == inp[i]
         IN  IF b = PAD
             THEN IF (i - 1) % 4 < 2 THEN [st EXCEPT !.err = TRUE]
                  ELSE ScanSuffix(inp, i + 1, [st EXCEPT !.pad = @ + 1])
             ELSE IF st.pad > 0 \/ DecodeSym(b) = INVALID_VALUE
                  THEN [st EXCEPT !.err = TRUE]
             ELSE ScanSuffix(inp, i + 1,
                             [st EXCEPT !.morsels = @ + 1,
                                        !.bits = @ * 64 + DecodeSym(b)])

(* Mutant: the NO_PAD engine's suffix, which takes any padding for an error. *)
DecodeSuffixRequireNone(inp, acc) ==
    LET st == ScanSuffix(inp, 1, [pad |-> 0, morsels |-> 0, bits |-> 0, err |-> FALSE])
    IN  IF st.err \/ st.pad > 0 \/ st.morsels = 1
        THEN [ok |-> FALSE, bytes |-> acc]
        ELSE IF st.morsels = 0 THEN [ok |-> TRUE, bytes |-> acc]
        ELSE IF st.morsels = 2
             THEN IF st.bits % 16 # 0 THEN [ok |-> FALSE, bytes |-> acc]
                  ELSE [ok |-> TRUE, bytes |-> Append(acc, st.bits \div 16)]
        ELSE IF st.morsels = 3
             THEN IF st.bits % 4 # 0 THEN [ok |-> FALSE, bytes |-> acc]
                  ELSE [ok |-> TRUE,
                        bytes |-> acc \o <<st.bits \div 1024, (st.bits \div 4) % 256>>]
        ELSE [ok |-> TRUE,
              bytes |-> acc \o <<st.bits \div 65536, (st.bits \div 256) % 256,
                                 st.bits % 256>>]

DecodeSuffix(inp, acc) ==
    LET st == ScanSuffix(inp, 1, [pad |-> 0, morsels |-> 0, bits |-> 0, err |-> FALSE])
    IN  IF st.err \/ (st.pad + st.morsels) % 4 # 0 \/ st.morsels = 1
        THEN [ok |-> FALSE, bytes |-> acc]
        ELSE IF st.morsels = 0 THEN [ok |-> TRUE, bytes |-> acc]
        ELSE IF st.morsels = 2
             THEN IF st.bits % 16 # 0 THEN [ok |-> FALSE, bytes |-> acc]
                  ELSE [ok |-> TRUE, bytes |-> Append(acc, st.bits \div 16)]
        ELSE IF st.morsels = 3
             THEN IF st.bits % 4 # 0 THEN [ok |-> FALSE, bytes |-> acc]
                  ELSE [ok |-> TRUE,
                        bytes |-> acc \o <<st.bits \div 1024, (st.bits \div 4) % 256>>]
        ELSE [ok |-> TRUE,
              bytes |-> acc \o <<st.bits \div 65536, (st.bits \div 256) % 256,
                                 st.bits % 256>>]

(* Engine::decode: Result<Vec<u8>, DecodeError>.  Quads before the last    *)
(* chunk hold four alphabet symbols each; on Err `bytes` holds what had    *)
(* been decoded before the error (the Err value itself carries no bytes).  *)
RECURSIVE DecodeBytes(_, _)
DecodeBytes(inp, acc) ==
    IF Len(inp) > 4
    THEN IF \E k \in 1..4 : DecodeSym(inp[k]) = INVALID_VALUE
         THEN [ok |-> FALSE, bytes |-> acc]
         ELSE LET v == DecodeSym(inp[1]) * 262144 + DecodeSym(inp[2]) * 4096
                        + DecodeSym(inp[3]) * 64 + DecodeSym(inp[4])
              IN  DecodeBytes(SubSeq(inp, 5, Len(inp)),
                              acc \o <<v \div 65536, (v \div 256) % 256, v % 256>>)
    ELSE DecodeSuffix(inp, acc)

----------------------------------------------------------------------------
(* ancryptor::encode and ancryptor::decode *)

(* pub fn encode(to: &str) -> String *)
encode(to) == EncodeBytes(StrBytes(to))

(* Mutant: an engine that takes the empty input for an error. *)
DecodeEngineRejectsEmpty(inp) ==
    IF inp = <<>> THEN [ok |-> FALSE, bytes |-> <<>>] ELSE DecodeBytes(inp, <<>>)

(* base64Engine.decode(String::from(from)) *)
DecodeEngine(inp) == DecodeBytes(inp, <<>>)

(* Mutant: the bytes decoded before the error are kept. *)
UnwrapOrPartial(res) == res.bytes

(* .unwrap_or(vec![]) *)
UnwrapOrEmpty(res) == IF res.ok THEN res.bytes ELSE <<>>

(* Mutant: the valid prefix is returned (a lossy conversion). *)
OnUtf8ErrLossy(res) == res.text

(* Err(_) => "".to_owned() *)
OnUtf8Err(res) == <<>>

(* pub fn decode(from: &str) -> String, with the path it took. *)
decodeCall(from) ==
    LET b64 == DecodeEngine(StrBytes(from))
        base64_bytes == UnwrapOrEmpty(b64)
        utf8 == FromUtf8(base64_bytes, <<>>)
    IN  [ret |-> IF utf8.ok THEN utf8.text ELSE OnUtf8Err(utf8),
         path |-> IF ~b64.ok THEN "base64_err"
                  ELSE IF ~utf8.ok THEN "utf8_err" ELSE "ok"]

decode(from) == decodeCall(from).ret

----------------------------------------------------------------------------
(* The host: it holds a text, hands it to encode or to decode, and keeps   *)
(* what came back for its next call.  `calls` records, oldest first, each  *)
(* call's function, argument, return value and the path decode took.       *)

(* Chars of the texts handed to encode: 'a', U+0080, U+00E9, U+07FF,       *)
(* U+0800, U+20AC, U+D7FF, U+E000, U+10000, U+1F600, U+10FFFF (1, 2, 3 and *)
(* 4 bytes of UTF-8, at the edges of each width and of the surrogates).    *)
TextChars == {97, 128, 233, 2047, 2048, 8364, 55295, 57344, 65536, 128512, 1114111}

(* Chars of the texts handed to decode: 'A', 'w', '6', '/', '=', '-' and   *)
(* the non-ASCII U+00E9.                                                    *)
B64Chars == {65, 119, 54, 47, 61, 45, 233}

SeqsUpTo(S, n) == UNION {[1..k -> S] : k \in 0..n}

(* The texts of the repository's integration tests. *)
HelloWorld ==
    <<104, 101, 108, 108, 111, 95, 119, 111, 114, 108, 100, 95,
      102, 114, 111, 109, 95, 114, 117, 115, 116>>

HelloWorldB64 ==
    <<97, 71, 86, 115, 98, 71, 57, 102, 100, 50, 57, 121, 98, 71, 82, 102,
      90, 110, 74, 118, 98, 86, 57, 121, 100, 88, 78, 48>>

InvalidB64Str == <<100, 102, 111, 105, 117, 101, 114, 119, 56, 57, 50>>

TestTexts == {HelloWorld, HelloWorldB64, InvalidB64Str}

(* Longer decode inputs: "AAAA-", "YWJjZA", "YWJjZA==", "AA==AAAA",        *)
(* "8J+YgA==" (U+1F600), "4oKs" (U+20AC), "YWJj/w==" ("abc" then 0xFF).    *)
LongSamples ==
    {<<65, 65, 65, 65, 45>>,
     <<89, 87, 74, 106, 90, 65>>,
     <<89, 87, 74, 106, 90, 65, 61, 61>>,
     <<65, 65, 61, 61, 65, 65, 65, 65>>,
     <<56, 74, 43, 89, 103, 65, 61, 61>>,
     <<52, 111, 75, 115>>,
     <<89, 87, 74, 106, 47, 119, 61, 61>>}

Inputs == SeqsUpTo(TextChars, MaxTextLen) \cup SeqsUpTo(B64Chars, MaxB64Len)
          \cup TestTexts \cup LongSamples

CallsPerSession == 2

CodecInit ==
    /\ input \in Inputs
    /\ cur = input
    /\ calls = <<>>

CallEncode ==
    /\ Len(calls) < CallsPerSession
    /\ LET r == encode(cur)
       IN  /\ calls' = Append(calls, [fn |-> "encode", arg |-> cur, ret |-> r,
                                      path |-> "ok"])
           /\ cur' = r
    /\ UNCHANGED <<input, callVars, pubVars>>

CallDecode ==
    /\ Len(calls) < CallsPerSession
    /\ LET r == decodeCall(cur)
       IN  /\ calls' = Append(calls, [fn |-> "decode", arg |-> cur, ret |-> r.ret,
                                      path |-> r.path])
           /\ cur' = r.ret
    /\ UNCHANGED <<input, callVars, pubVars>>

----------------------------------------------------------------------------
(* Concurrent callers.  Every call owns its argument, its local buffer and *)
(* its return value; the steps of different calls interleave freely.       *)

NumCallers == 2

Callers == 1..NumCallers

(* "a", "AA==", "/w==" (the byte 0xFF), "w6A=" (U+00E0), "A/==" *)
CallTexts ==
    {<<97>>, <<65, 65, 61, 61>>, <<47, 119, 61, 61>>, <<119, 54, 65, 61>>,
     <<65, 47, 61, 61>>}

CallersInit ==
    /\ cpc = [c \in Callers |-> "idle"]
    /\ cfn = [c \in Callers |-> "none"]
    /\ carg = [c \in Callers |-> <<>>]
    /\ cbuf = [c \in Callers |-> <<>>]
    /\ cret = [c \in Callers |-> <<>>]

(* Mutant: one buffer, the first caller's, used by every call. *)
SharedBuffer(c) == cbuf[1]

(* The buffer a call's steps read and write: a local of that call. *)
OwnBuffer(c) == cbuf[c]

Invoke(c) ==
    /\ cpc[c] = "idle"
    /\ \E f \in {"encode", "decode"}, t \in CallTexts :
          /\ cfn' = [cfn EXCEPT ![c] = f]
          /\ carg' = [carg EXCEPT ![c] = t]
    /\ cpc' = [cpc EXCEPT ![c] = "called"]
    /\ UNCHANGED <<cbuf, cret, codecVars, pubVars>>

(* String::from(to) / String::from(from): the call's own copy of its input. *)
CopyInput(c) ==
    /\ cpc[c] = "called"
    /\ cbuf' = [cbuf EXCEPT ![c] = StrBytes(carg[c])]
    /\ cpc' = [cpc EXCEPT ![c] = "copied"]
    /\ UNCHANGED <<cfn, carg, cret, codecVars, pubVars>>

EncodeStep(c) ==
    /\ cpc[c] = "copied" /\ cfn[c] = "encode"
    /\ cret' = [cret EXCEPT ![c] = EncodeBytes(OwnBuffer(c))]
    /\ cpc' = [cpc EXCEPT ![c] = "returned"]
    /\ UNCHANGED <<cfn, carg, cbuf, codecVars, pubVars>>

Base64Step(c) ==
    /\ cpc[c] = "copied" /\ cfn[c] = "decode"
    /\ cbuf' = [cbuf EXCEPT ![c] = UnwrapOrEmpty(DecodeEngine(OwnBuffer(c)))]
    /\ cpc' = [cpc EXCEPT ![c] = "base64_done"]
    /\ UNCHANGED <<cfn, carg, cret, codecVars, pubVars>>

Utf8Step(c) ==
    /\ cpc[c] = "base64_done"
    /\ LET utf8 == FromUtf8(OwnBuffer(c), <<>>)
       IN  cret' = [cret EXCEPT ![c] = IF utf8.ok THEN utf8.text ELSE OnUtf8Err(utf8)]
    /\ cpc' = [cpc EXCEPT ![c] = "returned"]
    /\ UNCHANGED <<cfn, carg, cbuf, codecVars, pubVars>>

(* The caller takes the result; the call's locals are dropped. *)
TakeResult(c) ==
    /\ cpc[c] = "returned"
    /\ cpc' = [cpc EXCEPT ![c] = "idle"]
    /\ cfn' = [cfn EXCEPT ![c] = "none"]
    /\ carg' = [carg EXCEPT ![c] = <<>>]
    /\ cbuf' = [cbuf EXCEPT ![c] = <<>>]
    /\ cret' = [cret EXCEPT ![c] = <<>>]
    /\ UNCHANGED <<codecVars, pubVars>>

----------------------------------------------------------------------------
(* The publish binary: src/bin/publish.rs *)

NumTargets == 3

(* The keys of build::ANDROID_TARGET_ABI_CONFIG. *)
Targets == 1..NumTargets

(* .keys(): the targets, each once, in the order the map yields them. *)
KeyOrders == {f \in [1..NumTargets -> Targets] : \A i, j \in 1..NumTargets : f[i] = f[j] => i = j}

(* env::current_dir(): unreadable; the root; a child of the root (of any   *)
(* name); or deeper, and then its parent is not valid Unicode, or only its *)
(* own last component is not, or the whole path is valid Unicode.          *)
CwdKinds ==
    {"unreadable", "root", "under_root", "parent_not_unicode", "leaf_not_unicode",
     "nested"}

SuccessMessage == "JNI Libs Succesfully Published to the Android Project!!!"

MissingMessage == "Error copying library file"

CopyErrorMessage == "io::copy_file error"

PublishInit ==
    /\ ppc = "start"
    /\ order \in KeyOrders
    /\ idx = 1
    /\ libExists \in [Targets -> BOOLEAN]
    /\ cwd \in CwdKinds
    /\ copied = {}
    /\ attempts = <<>>
    /\ failedAt = 0
    /\ printed = "none"

(* project_dir_path(): three expect()s, each a panic: current_dir() fails, *)
(* the current directory has no parent, or the parent (the value returned; *)
(* the current directory's own name is not part of it) is not Unicode.     *)
ProjectDirPathPanics == cwd \in {"unreadable", "root", "parent_not_unicode"}

(* android_jni_dir_path(): it calls project_dir_path() again (line 71), so *)
(* each iteration reads the current directory anew and panics where that   *)
(* call panics; and project_dir.parent() is None when the project dir is   *)
(* the root.  The grandparent of the current directory is valid Unicode    *)
(* whenever the parent is, so the last expect() cannot fail after that.    *)
AndroidJniDirPathPanics == ProjectDirPathPanics \/ cwd = "under_root"

(* Another process renames, moves or removes the directory the binary runs *)
(* in (or one above it) while the binary runs: the next read of            *)
(* env::current_dir() sees it.  The root stays the root.                    *)
CwdChanges ==
    /\ ppc \in {"start", "loop"}
    /\ cwd # "root"
    /\ \E k \in CwdKinds \ {"root", cwd} : cwd' = k
    /\ UNCHANGED <<ppc, order, idx, libExists, copied, attempts, failedAt, printed, codecVars, callVars>>

(* let project_dir_path = project_dir_path(); *)
PublishStart ==
    /\ ppc = "start"
    /\ ppc' = IF ProjectDirPathPanics THEN "panicked" ELSE "loop"
    /\ UNCHANGED <<order, idx, libExists, cwd, copied, attempts, failedAt, printed, codecVars, callVars>>

(* A loop iteration that panics while it builds the android path. *)
IterPanic ==
    /\ ppc = "loop" /\ idx <= NumTargets
    /\ AndroidJniDirPathPanics
    /\ ppc' = "panicked"
    /\ UNCHANGED <<order, idx, libExists, cwd, copied, attempts, failedAt, printed, codecVars, callVars>>

(* Mutant: a missing library is skipped and the loop goes on. *)
OnMissingContinue(i) == [pc |-> "loop", idx |-> i + 1, failedAt |-> 0]

(* else { return Err("Error copying library file".into()) } *)
OnMissing(i) == [pc |-> "returned_err", idx |-> i, failedAt |-> i]

IterMissing ==
    /\ ppc = "loop" /\ idx <= NumTargets
    /\ ~AndroidJniDirPathPanics
    /\ ~libExists[order[idx]]
    /\ ppc' = OnMissing(idx).pc
    /\ idx' = OnMissing(idx).idx
    /\ failedAt' = OnMissing(idx).failedAt
    /\ UNCHANGED <<order, libExists, cwd, copied, attempts, printed, codecVars, callVars>>

(* io::copy_file(...)? returned Ok: the loop goes on. *)
IterCopyOk ==
    /\ ppc = "loop" /\ idx <= NumTargets
    /\ ~AndroidJniDirPathPanics
    /\ libExists[order[idx]]
    /\ attempts' = Append(attempts, order[idx])
    /\ copied' = copied \cup {order[idx]}
    /\ idx' = idx + 1
    /\ UNCHANGED <<ppc, order, libExists, cwd, failedAt, printed, codecVars, callVars>>

(* io::copy_file(...)? returned Err: `?` returns it. *)
IterCopyErr ==
    /\ ppc = "loop" /\ idx <= NumTargets
    /\ ~AndroidJniDirPathPanics
    /\ libExists[order[idx]]
    /\ attempts' = Append(attempts, order[idx])
    /\ ppc' = "returned_copy_err"
    /\ failedAt' = idx
    /\ UNCHANGED <<order, idx, libExists, cwd, copied, printed, codecVars, callVars>>

(* Ok("JNI Libs Succesfully Published to the Android Project!!!".to_owned()) *)
PublishOk ==
    /\ ppc = "loop" /\ idx > NumTargets
    /\ ppc' = "returned_ok"
    /\ UNCHANGED <<order, idx, libExists, cwd, copied, attempts, failedAt, printed, codecVars, callVars>>

(* fn main(): print the success message or the error's text. *)
MainReport ==
    /\ ppc \in {"returned_ok", "returned_err", "returned_copy_err"}
    /\ printed = "none"
    /\ printed' = IF ppc = "returned_ok" THEN SuccessMessage
                  ELSE IF ppc = "returned_err" THEN MissingMessage
                  ELSE CopyErrorMessage
    /\ UNCHANGED <<ppc, order, idx, libExists, cwd, copied, attempts, failedAt, codecVars, callVars>>

----------------------------------------------------------------------------
(* Specifications.  Each part of the repository runs on its own; the       *)
(* variables of the other parts stay at rest.                               *)

CodecRest == input = <<>> /\ cur = <<>> /\ calls = <<>>

CallersRest ==
    /\ cpc = <<>> /\ cfn = <<>> /\ carg = <<>> /\ cbuf = <<>> /\ cret = <<>>

PublishRest ==
    /\ ppc = "rest" /\ order = <<>> /\ idx = 0 /\ libExists = <<>>
    /\ cwd = "nested" /\ copied = {} /\ attempts = <<>> /\ failedAt = 0
    /\ printed = "none"

Init == CodecInit /\ CallersRest /\ PublishRest

Next == CallEncode \/ CallDecode

Spec == Init /\ [][Next]_vars

InitCallers == CodecRest /\ CallersInit /\ PublishRest

NextCallers ==
    \E c \in Callers :
        \/ Invoke(c)
        \/ CopyInput(c)
        \/ EncodeStep(c)
        \/ Base64Step(c)
        \/ Utf8Step(c)
        \/ TakeResult(c)

SpecCallers == InitCallers /\ [][NextCallers]_vars

InitPublish == CodecRest /\ CallersRest /\ PublishInit

NextPublish ==
    \/ CwdChanges
    \/ PublishStart
    \/ IterPanic
    \/ IterMissing
    \/ IterCopyOk
    \/ IterCopyErr
    \/ PublishOk
    \/ MainReport

SpecPublish == InitPublish /\ [][NextPublish]_vars

----------------------------------------------------------------------------
(* Reference notions the properties are stated with (RFC 4648, section 4), *)
(* written without the operators of the model's encoder and decoder.       *)

(* "ABCDEFGHIJKLMNOPQRSTUVWXYZabcdefghijklmnopqrstuvwxyz0123456789+/" *)
RefAlphabet ==
    <<65, 66, 67, 68, 69, 70, 71, 72, 73, 74, 75, 76, 77, 78, 79, 80, 81, 82,
      83, 84, 85, 86, 87, 88, 89, 90,
      97, 98, 99, 100, 101, 102, 103, 104, 105, 106, 107, 108, 109, 110, 111,
      112, 113, 114, 115, 116, 117, 118, 119, 120, 121, 122,
      48, 49, 50, 51, 52, 53, 54, 55, 56, 57, 43, 47>>

AlphabetCodes == {RefAlphabet[k] : k \in 1..64}

RefValue(ch) == (CHOOSE k \in 1..64 : RefAlphabet[k] = ch) - 1

(* Bit k (from 0, most significant first) of a byte string; 0 past its end. *)
BitAt(b, k) ==
    IF k \div 8 + 1 > Len(b) THEN 0
    ELSE (b[k \div 8 + 1] \div (2 ^ (7 - (k % 8)))) % 2

(* The q-th (from 0) 6-bit group of a byte string, zero-filled. *)
SextetAt(b, q) ==
    BitAt(b, 6 * q) * 32 + BitAt(b, 6 * q + 1) * 16 + BitAt(b, 6 * q + 2) * 8
    + BitAt(b, 6 * q + 3) * 4 + BitAt(b, 6 * q + 4) * 2 + BitAt(b, 6 * q + 5)

(* Number of '=' a string ends with. *)
RECURSIVE TrailingPads(_)
TrailingPads(y) ==
    IF y = <<>> \/ y[Len(y)] # 61 THEN 0
    ELSE 1 + TrailingPads(SubSeq(y, 1, Len(y) - 1))

(* The three ways section 4.1 of the specification names for a decode      *)
(* input to be malformed, over the bytes of the input.                      *)
HasIllegalChar(y) == \E k \in 1..Len(y) : y[k] \notin AlphabetCodes \cup {61}

WrongLength(y) == Len(y) % 4 # 0

BadPadding(y) ==
    \/ TrailingPads(y) > 2
    \/ \E k \in 1..(Len(y) - TrailingPads(y)) : y[k] = 61

Malformed(y) == HasIllegalChar(y) \/ WrongLength(y) \/ BadPadding(y)

(* The symbols of a well-formed input, as 6-bit values. *)
SymbolValues(y) == [k \in 1..(Len(y) - TrailingPads(y)) |-> RefValue(y[k])]

(* Bit k (from 0) of the concatenated 6-bit values. *)
SymBitAt(v, k) == (v[k \div 6 + 1] \div (2 ^ (5 - (k % 6)))) % 2

(* The bytes a well-formed input stands for: the whole bytes of its bits. *)
RefDecode(y) ==
    LET v == SymbolValues(y)
    IN  [j \in 1..((6 * Len(v)) \div 8) |->
            SymBitAt(v, 8 * (j - 1)) * 128 + SymBitAt(v, 8 * (j - 1) + 1) * 64
            + SymBitAt(v, 8 * (j - 1) + 2) * 32 + SymBitAt(v, 8 * (j - 1) + 3) * 16
            + SymBitAt(v, 8 * (j - 1) + 4) * 8 + SymBitAt(v, 8 * (j - 1) + 5) * 4
            + SymBitAt(v, 8 * (j - 1) + 6) * 2 + SymBitAt(v, 8 * (j - 1) + 7)]

(* The bits of the last symbol that belong to no byte are zero. *)
CanonicalBits(y) ==
    LET v == SymbolValues(y)
    IN  \A k \in (8 * ((6 * Len(v)) \div 8))..(6 * Len(v) - 1) : SymBitAt(v, k) = 0

IsUtf8(b) == FromUtf8(b, <<>>).ok

EncodeCalls == {k \in 1..Len(calls) : calls[k].fn = "encode"}

DecodeCalls == {k \in 1..Len(calls) : calls[k].fn = "decode"}

(* decode applied to what encode returned / encode applied to what decode returned *)
RoundTrips == {k \in 2..Len(calls) : calls[k].fn = "decode" /\ calls[k - 1].fn = "encode"}

ReverseTrips == {k \in 2..Len(calls) : calls[k].fn = "encode" /\ calls[k - 1].fn = "decode"}

----------------------------------------------------------------------------
(* C1: decoding what encode returned for a text x gives back x, for every  *)
(* text x, the empty one and those whose byte length is no multiple of 3   *)
(* included.                                                                *)
C1_RoundTrip ==
    \A k \in RoundTrips : calls[k].ret = calls[k - 1].arg

C1_Witness ==
    \E k \in RoundTrips :
        /\ Len(StrBytes(calls[k - 1].arg)) % 3 # 0
        /\ \E j \in 1..Len(calls[k - 1].arg) : calls[k - 1].arg[j] > 65535
        /\ calls[k].ret = calls[k - 1].arg

(* C2: decode returns the empty text for every input that has a character  *)
(* outside the alphabet, incorrect padding or a length that is no multiple *)
(* of 4: it returns, and returns no partial decode.                         *)
C2_MalformedGivesEmpty ==
    \A k \in DecodeCalls :
        Malformed(StrBytes(calls[k].arg)) =>
            calls[k].ret = <<>> /\ calls[k].path = "base64_err"

C2_Witness ==
    \E k \in DecodeCalls :
        /\ Len(calls[k].arg) > 4
        /\ ~HasIllegalChar(SubSeq(StrBytes(calls[k].arg), 1, 4))
        /\ Malformed(StrBytes(calls[k].arg))
        /\ calls[k].ret = <<>>

(* C3: decode returns the empty text for every well-formed base64 input    *)
(* whose bytes are not valid UTF-8.                                         *)
C3_NonUtf8GivesEmpty ==
    \A k \in DecodeCalls :
        LET y == StrBytes(calls[k].arg)
        IN  (~Malformed(y) /\ ~IsUtf8(RefDecode(y))) => calls[k].ret = <<>>

C3_Witness ==
    \E k \in DecodeCalls :
        LET y == StrBytes(calls[k].arg)
        IN  /\ ~Malformed(y)
            /\ RefDecode(y) = <<255>>
            /\ calls[k].path = "utf8_err"
            /\ calls[k].ret = <<>>

(* C4: encode(x) is the standard padded base64 of the UTF-8 bytes of x:    *)
(* its k-th character is the alphabet character of the k-th 6-bit group of *)
(* the zero-filled bytes, '=' where the group holds no bit of x; and       *)
(* encode("hello_world_from_rust") is "aGVsbG9fd29ybGRfZnJvbV9ydXN0".      *)
C4_EncodeIsStandardBase64 ==
    \A k \in EncodeCalls :
        LET b == StrBytes(calls[k].arg)
            r == calls[k].ret
        IN  /\ Len(r) = 4 * ((Len(b) + 2) \div 3)
            /\ \A q \in 1..Len(r) :
                  r[q] = IF 6 * (q - 1) < 8 * Len(b)
                         THEN RefAlphabet[SextetAt(b, q - 1) + 1]
                         ELSE 61
            /\ (calls[k].arg = HelloWorld => r = HelloWorldB64)

C4_Witness ==
    \E k \in EncodeCalls : calls[k].arg = HelloWorld /\ calls[k].ret = HelloWorldB64

(* C5: for a text of n UTF-8 bytes encode returns ceil(n / 3) * 4          *)
(* characters, ending with two '=' when n mod 3 = 1, one when n mod 3 = 2  *)
(* and none when n mod 3 = 0.                                               *)
C5_LengthAndPadding ==
    \A k \in EncodeCalls :
        LET n == Len(StrBytes(calls[k].arg))
            r == calls[k].ret
        IN  /\ Len(r) * 3 >= n * 4
            /\ Len(r) * 3 < (n + 3) * 4
            /\ Len(r) % 4 = 0
            /\ TrailingPads(r) = (IF n % 3 = 1 THEN 2 ELSE IF n % 3 = 2 THEN 1 ELSE 0)

C5_Witness ==
    \E j \in EncodeCalls :
        /\ Len(StrBytes(calls[j].arg)) = 7
        /\ TrailingPads(calls[j].ret) = 2
        /\ Len(calls[j].ret) = 12

(* C7: every character encode returns is of the standard alphabet or is    *)
(* '=', and '=' occurs only as the last one or two characters.              *)
C7_OutputAlphabet ==
    \A k \in EncodeCalls :
        LET r == calls[k].ret
        IN  \A q \in 1..Len(r) :
               /\ r[q] \in AlphabetCodes \cup {61}
               /\ r[q] = 61 =>
                     /\ q >= Len(r) - 1
                     /\ \A j \in q..Len(r) : r[j] = 61

C7_Witness ==
    \E k \in EncodeCalls :
        /\ \E q \in 1..Len(calls[k].ret) : calls[k].ret[q] = 43
        /\ TrailingPads(calls[k].ret) = 2

(* C8: decode of the empty text returns the empty text, on the success     *)
(* path: the empty input is valid base64 and its no bytes are valid UTF-8. *)
C8_DecodeEmpty ==
    \A k \in DecodeCalls :
        calls[k].arg = <<>> => calls[k].ret = <<>> /\ calls[k].path = "ok"

C8_Witness ==
    \E k \in DecodeCalls : calls[k].arg = <<>> /\ calls[k].path = "ok"

(* C6 as stated: encode(decode(y)) = y exactly for the inputs y that are   *)
(* well-formed base64 (alphabet, padding, length) standing for valid       *)
(* UTF-8 bytes.                                                             *)
C6_ReverseRoundTripAsStated ==
    \A k \in ReverseTrips :
        LET y == StrBytes(calls[k - 1].arg)
        IN  (calls[k].ret = calls[k - 1].arg)
            <=> (~Malformed(y) /\ IsUtf8(RefDecode(y)))

(* C6, amended: encode(decode(y)) = y exactly for the inputs y that are    *)
(* well-formed base64 whose last symbol leaves no bit set outside the      *)
(* bytes it stands for (the canonical form) and that stand for valid       *)
(* UTF-8 bytes.                                                             *)
C6_ReverseRoundTrip ==
    \A k \in ReverseTrips :
        LET y == StrBytes(calls[k - 1].arg)
        IN  (calls[k].ret = calls[k - 1].arg)
            <=> (~Malformed(y) /\ CanonicalBits(y) /\ IsUtf8(RefDecode(y)))

C6_Witness ==
    \E j \in ReverseTrips :
        /\ calls[j].ret = calls[j - 1].arg
        /\ Len(calls[j].ret) = 8
        /\ TrailingPads(calls[j].ret) = 2
        /\ \E q \in 1..Len(calls[j - 1].ret) : calls[j - 1].ret[q] > 65535

(* C9: whatever calls run before or at the same time, a call returns what  *)
(* the function gives for that call's own argument, so two calls of the    *)
(* same function with the same argument return the same.                    *)
C9_CallsDependOnOwnInput ==
    /\ \A c \in Callers :
          cpc[c] = "returned" =>
              cret[c] = (IF cfn[c] = "encode" THEN encode(carg[c]) ELSE decode(carg[c]))
    /\ \A c, d \in Callers :
          (cpc[c] = "returned" /\ cpc[d] = "returned"
           /\ cfn[c] = cfn[d] /\ carg[c] = carg[d]) => cret[c] = cret[d]

C9_Witness ==
    \E c, d \in Callers :
        /\ c # d
        /\ cpc[c] = "returned" /\ cfn[c] = "decode" /\ cret[c] # <<>>
        /\ cpc[d] \in {"copied", "base64_done"} /\ carg[d] # carg[c]

(* C10: publish returns the success message only if every target's library *)
(* existed and was copied; at the first target, in the order the loop      *)
(* visits them, whose library is missing or whose copy fails it returns an *)
(* error, having attempted no copy for a later target and leaving the      *)
(* earlier targets' copies in place.  (A run that panics in a path helper  *)
(* returns nothing: it too leaves the copies made so far and reports no    *)
(* success.)                                                                *)
C10_PublishAllOrStopAtFirstFailure ==
    /\ (ppc = "returned_ok" \/ printed = SuccessMessage) =>
          \A t \in Targets : libExists[t] /\ t \in copied
    /\ ppc \in {"returned_err", "returned_copy_err"} =>
          /\ failedAt \in 1..NumTargets
          /\ (ppc = "returned_err") <=> ~libExists[order[failedAt]]
          /\ \A j \in 1..(failedAt - 1) : libExists[order[j]]
          /\ copied = {order[j] : j \in 1..(failedAt - 1)}
          /\ attempts = [j \in 1..Len(attempts) |-> order[j]]
          /\ Len(attempts) = (IF ppc = "returned_err" THEN failedAt - 1 ELSE failedAt)
          /\ printed # SuccessMessage
    /\ (ppc \in {"loop", "panicked"} /\ idx <= NumTargets) =>
          /\ \A j \in 1..(idx - 1) : libExists[order[j]]
          /\ copied = {order[j] : j \in 1..(idx - 1)}
          /\ attempts = [j \in 1..(idx - 1) |-> order[j]]
          /\ printed = "none"

C10_Witness ==
    /\ ppc = "returned_err"
    /\ failedAt = 2
    /\ copied = {order[1]}
    /\ \E j \in 3..NumTargets : libExists[order[j]] /\ order[j] \notin copied
    /\ printed = MissingMessage

====
